---- MODULE Spec2Model ----
(***************************************************************************)
(* Subscription registry of the pubsub crate (SubscriptionManager), the    *)
(* broadcast channel behind each ActiveSubscription, and the consumer      *)
(* handles (RawSubscription) reading from it; the typed handle             *)
(* (Subscription<T>) with its strict, tagged and explicit-result reads;    *)
(* and, of the eips crate, calc_excess_blob_gas along a chain of headers   *)
(* and the loop of fake_exponential on u128 values.                        *)
(***************************************************************************)
EXTENDS Integers, Sequences, FiniteSets, TLC

\* ---- bounds of the model ------------------------------------------------
MaxHandles == 2      \* consumer handles minted in one behaviour
MaxSend == 2         \* values published in one behaviour
MaxPublish == 3      \* values published to a typed handle's channel in one behaviour
MaxHeight == 2       \* blocks built on the first header in one behaviour
Cap == 1             \* ring-buffer length of one broadcast channel
MaxIter == 250       \* iterations of the loop of fake_exponential in one behaviour

\* Option::None of local_id_for / get_subscription
None == 0

Requests == {1, 2, 3}    \* serialized subscribe requests
Locals == {1, 2}         \* B256 local ids
Servers == {1, 2}        \* U256 server ids
Payloads == {1, 2}       \* Box<RawValue> payloads

HandleIds == 1..MaxHandles
ChanIds == 1..MaxHandles \* every new channel is created together with a handle

VARIABLES
    local_to_sub,      \* BiBTreeMap<B256, ActiveSubscription>: set of <<local_id, sub>>
    local_to_server,   \* BiBTreeMap<B256, U256>: set of <<local_id, server_id>>
    chans,             \* per broadcast channel, the values sent on it so far
    handles,           \* RawSubscription handles handed out
    nchans,            \* channels created so far
    nhandles,          \* handles minted so far
    lastOp,            \* the last operation that changed anything, with its arguments
    excess_blob_gas,   \* header field excess_blob_gas of the latest block
    blob_gas_used,     \* header field blob_gas_used of the latest block
    height,            \* blocks built on the first header
    factor,            \* fake_exponential: its arguments, as u128
    numerator,
    denominator,
    iter,              \* the loop's i
    output,
    numerator_accum,
    pc,                \* where the call is: idle, call, loop, returned, panicked
    returned,          \* the value returned
    overflow_checks    \* the build's overflow checks (on in debug and test builds)

pubsubVars == <<local_to_sub, local_to_server, chans, handles, nchans, nhandles, lastOp>>

gasVars == <<excess_blob_gas, blob_gas_used, height>>

expVars == <<factor, numerator, denominator, iter, output, numerator_accum, pc,
            returned, overflow_checks>>

eipVars == <<gasVars, expVars>>

vars == <<local_to_sub, local_to_server, chans, handles, nchans, nhandles, lastOp,
          excess_blob_gas, blob_gas_used, height, factor, numerator, denominator, iter,
          output, numerator_accum, pc, returned, overflow_checks>>

\* no call of fake_exponential is made
ExpIdle ==
    /\ factor = <<>> /\ numerator = <<>> /\ denominator = <<>>
    /\ iter = 0 /\ output = <<>> /\ numerator_accum = <<>>
    /\ pc = "idle" /\ returned = <<>> /\ overflow_checks = TRUE

\* ---- SerializedRequest::params_hash --------------------------------------
\* Requests 1 and 2 carry byte-identical params, request 3 different ones.
params_hash(request) == IF request = 3 THEN 2 ELSE 1

\* ---- bimap::BiBTreeMap ----------------------------------------------------
ContainsLeft(m, l) == \E p \in m : p[1] = l

GetByLeft(m, l) == (CHOOSE p \in m : p[1] = l)[2]

RemoveByLeft(m, l) == {p \in m : p[1] # l}

\* insert that evicts by the left value only
BiInsert_LeftOnly(m, l, r) == {p \in m : p[1] # l} \cup {<<l, r>>}

\* insert evicts every pair that shares the left or the right value
BiInsert(m, l, r) == {p \in m : p[1] # l /\ p[2] # r} \cup {<<l, r>>}

\* ActiveSubscription compares by local_id only
BiInsertSub(m, l, sub) ==
    {p \in m : p[1] # l /\ p[2].local_id # sub.local_id} \cup {<<l, sub>>}

\* ---- results of a read ----------------------------------------------------
Val(v) == [k |-> "val", v |-> v]
Lagged(n) == [k |-> "lagged", v |-> n]
Closed == [k |-> "closed", v |-> 0]
Empty == [k |-> "empty", v |-> 0]

\* ---- tokio broadcast channel ----------------------------------------------
\* no call made on a typed handle yet
NoCall == [fn |-> "none", busy |-> FALSE, from |-> 0, seen |-> <<>>, ret |-> Empty]

\* A handle: the read end (rx, next) and the local id; start and got are
\* history: the cursor at minting and the results read so far; call is the
\* call on the typed handle (Subscription<T>) wrapping it: the one in progress
\* or the last one finished, with its outcome.
DeadHandle == [alive |-> FALSE, local_id |-> None, rx |-> 0, next |-> 0,
               start |-> 0, got |-> <<>>, call |-> NoCall]

receiver_count(c) == Cardinality({h \in HandleIds : handles[h].alive /\ handles[h].rx = c})

\* the channel is closed once its only Sender, owned by the record, is dropped
SenderAlive(subs, c) == \E p \in subs : p[2].tx = c

\* a new read end positioned at the oldest retained value
NewReceiver_FromOldest(cs, c, local_id) ==
    LET oldest == IF Len(cs[c]) > Cap THEN Len(cs[c]) - Cap ELSE 0 IN
    [alive |-> TRUE, local_id |-> local_id, rx |-> c, next |-> oldest,
     start |-> oldest, got |-> <<>>, call |-> NoCall]

\* Sender::subscribe / Receiver::resubscribe: a read end positioned at the tail
NewReceiver(cs, c, local_id) ==
    [DeadHandle EXCEPT !.alive = TRUE, !.local_id = local_id, !.rx = c,
                       !.next = Len(cs[c]), !.start = Len(cs[c])]

\* Sender::send: append at the tail
Send(c, v) == [chans EXCEPT ![c] = Append(@, v)]

\* Receiver::len: messages this receiver has yet to receive
HandleLen(h) == Len(chans[handles[h].rx]) - handles[h].next

\* a lagging read that skips to the tail instead of the oldest retained value
RecvRef_LagToTail(hd) ==
    LET tail == Len(chans[hd.rx]) IN
    IF hd.next = tail
    THEN <<IF SenderAlive(local_to_sub, hd.rx) THEN Empty ELSE Closed, hd.next>>
    ELSE IF tail - hd.next > Cap
         THEN <<Lagged(tail - hd.next), tail>>
         ELSE <<Val(chans[hd.rx][hd.next + 1]), hd.next + 1>>

\* Receiver::try_recv on handle record hd: <<result, next cursor>>
RecvRef(hd) ==
    LET tail == Len(chans[hd.rx]) IN
    IF hd.next = tail
    THEN <<IF SenderAlive(local_to_sub, hd.rx) THEN Empty ELSE Closed, hd.next>>
    ELSE IF tail - hd.next > Cap
         THEN <<Lagged((tail - Cap) - hd.next), tail - Cap>>
         ELSE <<Val(chans[hd.rx][hd.next + 1]), hd.next + 1>>

\* what a handle has observed: every value and Lagged, and the first Closed
Observe(got, res) ==
    IF res.k = "empty" THEN got
    ELSE IF res.k = "closed" /\ got # <<>> /\ got[Len(got)].k = "closed" THEN got
    ELSE Append(got, res)

RECURSIVE SentUpTo(_)
SentUpTo(c) == IF c = 0 THEN 0 ELSE Len(chans[c]) + SentUpTo(c - 1)
TotalSent == SentUpTo(MaxHandles)

\* ---- ActiveSubscription ---------------------------------------------------
ActiveNew(request, c) == [local_id |-> params_hash(request), tx |-> c]

ActiveSubscribe(cs, sub) == NewReceiver(cs, sub.tx, sub.local_id)

ActiveNotify(sub, v) == IF receiver_count(sub.tx) > 0 THEN Send(sub.tx, v) ELSE chans

\* ---- SubscriptionManager --------------------------------------------------
len == Cardinality(local_to_sub)

GetByRight(m, r) == IF \E p \in m : p[2] = r THEN (CHOOSE p \in m : p[2] = r)[1] ELSE None

local_id_for(server_id) == GetByRight(local_to_server, server_id)

\* the server id currently recorded for a local id
ServerOf(m, local_id) == IF ContainsLeft(m, local_id) THEN GetByLeft(m, local_id) ELSE None

\* a rotation that keeps the old server id beside the new one
change_server_id_KeepsOld(local_id, server_id) ==
    {p \in local_to_server : p[2] # server_id} \cup {<<local_id, server_id>>}

change_server_id(local_id, server_id) == BiInsert(local_to_server, local_id, server_id)

\* a record of one operation: its name and arguments (0 where it has none)
Op(op, a, b, c) == [op |-> op, a |-> a, b |-> b, c |-> c]

\* lastOp after an operation: operations that change nothing leave no trace
Traced(op) ==
    IF <<local_to_sub, local_to_server, chans, handles>>' =
       <<local_to_sub, local_to_server, chans, handles>>
    THEN lastOp ELSE op

Init ==
    /\ local_to_sub = {}
    /\ local_to_server = {}
    /\ chans = [c \in ChanIds |-> <<>>]
    /\ handles = [h \in HandleIds |-> DeadHandle]
    /\ nchans = 0
    /\ nhandles = 0
    /\ lastOp = Op("init", 0, 0, 0)
    /\ excess_blob_gas = 0
    /\ blob_gas_used = 0
    /\ height = 0
    /\ ExpIdle

\* an insert that leaves a server id with the local id that had it
insert_KeepsTaken(request, server_id) ==
    LET c == nchans + 1
        active == ActiveNew(request, c)
        sub == ActiveSubscribe(chans, active)
        local_id == active.local_id
    IN  /\ nchans' = c
        /\ handles' = [handles EXCEPT ![nhandles + 1] = sub]
        /\ local_to_server' = BiInsert_LeftOnly(local_to_server, local_id, server_id)
        /\ local_to_sub' = BiInsertSub(local_to_sub, local_id, active)
        /\ UNCHANGED chans

insert(request, server_id) ==
    LET c == nchans + 1
        active == ActiveNew(request, c)
        sub == ActiveSubscribe(chans, active)
        local_id == active.local_id
    IN  /\ nchans' = c
        /\ handles' = [handles EXCEPT ![nhandles + 1] = sub]
        /\ local_to_server' = BiInsert(local_to_server, local_id, server_id)
        /\ local_to_sub' = BiInsertSub(local_to_sub, local_id, active)
        /\ UNCHANGED chans

\* get_subscription on the registry (subs, cs); DeadHandle stands for None
get_subscription_in(subs, cs, local_id) ==
    IF ContainsLeft(subs, local_id)
    THEN ActiveSubscribe(cs, GetByLeft(subs, local_id))
    ELSE DeadHandle

\* an upsert that looks for the local id among the server ids
upsert_ChecksServerIds(request, server_id) ==
    LET local_id == params_hash(request) IN
    /\ nhandles < MaxHandles
    /\ IF ContainsLeft(local_to_server, local_id)
       THEN /\ local_to_server' = change_server_id(local_id, server_id)
            /\ handles' = [handles EXCEPT ![nhandles + 1] =
                              get_subscription_in(local_to_sub, chans, local_id)]
            /\ UNCHANGED <<local_to_sub, chans, nchans>>
       ELSE insert(request, server_id)
    /\ nhandles' = nhandles + 1
    /\ UNCHANGED eipVars
    /\ lastOp' = Op("upsert", request, server_id, ServerOf(local_to_server, local_id))

\* an upsert without the dedup branch: always a new record and channel
upsert_AlwaysInsert(request, server_id) ==
    /\ nhandles < MaxHandles
    /\ insert(request, server_id)
    /\ nhandles' = nhandles + 1
    /\ UNCHANGED eipVars
    /\ lastOp' = Op("upsert", request, server_id,
                    ServerOf(local_to_server, params_hash(request)))

upsert(request, server_id) ==
    LET local_id == params_hash(request) IN
    /\ nhandles < MaxHandles
    /\ IF ContainsLeft(local_to_sub, local_id)
       THEN /\ local_to_server' = change_server_id(local_id, server_id)
            /\ handles' = [handles EXCEPT ![nhandles + 1] =
                              get_subscription_in(local_to_sub, chans, local_id)]
            /\ UNCHANGED <<local_to_sub, chans, nchans>>
       ELSE insert(request, server_id)
    /\ nhandles' = nhandles + 1
    \* c: the server id the local id had before the call
    /\ UNCHANGED eipVars
    /\ lastOp' = Op("upsert", request, server_id, ServerOf(local_to_server, local_id))

\* a reconnect that clears the records along with the server ids
drop_server_ids_ClearsAll ==
    /\ local_to_server' = {}
    /\ local_to_sub' = {}
    /\ UNCHANGED <<chans, handles, nchans, nhandles>>
    /\ UNCHANGED eipVars
    /\ lastOp' = Traced(Op("drop_server_ids", 0, 0, 0))

drop_server_ids ==
    /\ local_to_server' = {}
    /\ UNCHANGED <<local_to_sub, chans, handles, nchans, nhandles>>
    /\ UNCHANGED eipVars
    /\ lastOp' = Traced(Op("drop_server_ids", 0, 0, 0))

\* a removal that forgets the record
remove_sub_KeepsRecord(local_id) ==
    /\ local_to_server' = RemoveByLeft(local_to_server, local_id)
    /\ UNCHANGED <<local_to_sub, chans, handles, nchans, nhandles>>
    /\ UNCHANGED eipVars
    /\ lastOp' = Traced(Op("remove_sub", local_id, ServerOf(local_to_server, local_id), 0))

\* a removal that forgets the server-id mapping
remove_sub_KeepsServer(local_id) ==
    /\ local_to_sub' = RemoveByLeft(local_to_sub, local_id)
    /\ UNCHANGED <<local_to_server, chans, handles, nchans, nhandles>>
    /\ UNCHANGED eipVars
    /\ lastOp' = Traced(Op("remove_sub", local_id, ServerOf(local_to_server, local_id), 0))

\* the removed record is dropped, and its Sender with it
remove_sub(local_id) ==
    /\ local_to_sub' = RemoveByLeft(local_to_sub, local_id)
    /\ local_to_server' = RemoveByLeft(local_to_server, local_id)
    /\ UNCHANGED <<chans, handles, nchans, nhandles>>
    /\ UNCHANGED eipVars
    /\ lastOp' = Traced(Op("remove_sub", local_id, ServerOf(local_to_server, local_id), 0))

\* a notify that does not put the record back
notify_NoReinsert(server_id, result) ==
    LET local_id == local_id_for(server_id) IN
    /\ IF local_id # None /\ ContainsLeft(local_to_sub, local_id)
       THEN /\ TotalSent < MaxSend
            /\ chans' = ActiveNotify(GetByLeft(local_to_sub, local_id), result)
            /\ local_to_sub' = RemoveByLeft(local_to_sub, local_id)
       ELSE UNCHANGED <<chans, local_to_sub>>
    /\ UNCHANGED <<local_to_server, handles, nchans, nhandles>>
    /\ UNCHANGED eipVars
    /\ lastOp' = Traced(Op("notify", server_id, result, 0))

\* a notify that publishes on the channel of every record
notify_Broadcast(server_id, result) ==
    LET local_id == local_id_for(server_id) IN
    /\ IF local_id # None /\ ContainsLeft(local_to_sub, local_id)
       THEN /\ TotalSent < MaxSend
            /\ chans' = [c \in ChanIds |->
                            IF SenderAlive(local_to_sub, c) /\ receiver_count(c) > 0
                            THEN Append(chans[c], result) ELSE chans[c]]
       ELSE UNCHANGED chans
    /\ UNCHANGED <<local_to_sub, local_to_server, handles, nchans, nhandles>>
    /\ UNCHANGED eipVars
    /\ lastOp' = Traced(Op("notify", server_id, result, 0))

\* a notify that forgets a record nobody listens to
notify_DropsWhenUnheard(server_id, result) ==
    LET local_id == local_id_for(server_id) IN
    /\ IF local_id # None /\ ContainsLeft(local_to_sub, local_id)
       THEN LET sub == GetByLeft(local_to_sub, local_id)
                removed == RemoveByLeft(local_to_sub, local_id)
            IN  /\ TotalSent < MaxSend
                /\ chans' = ActiveNotify(sub, result)
                /\ local_to_sub' = IF receiver_count(sub.tx) > 0
                                   THEN BiInsertSub(removed, local_id, sub)
                                   ELSE removed
       ELSE UNCHANGED <<chans, local_to_sub>>
    /\ UNCHANGED <<local_to_server, handles, nchans, nhandles>>
    /\ UNCHANGED eipVars
    /\ lastOp' = Traced(Op("notify", server_id, result, 0))

\* a notify that waits while a reader of the channel has a full buffer
notify_WaitsForReaders(server_id, result) ==
    LET local_id == local_id_for(server_id) IN
    /\ IF local_id # None /\ ContainsLeft(local_to_sub, local_id)
       THEN LET sub == GetByLeft(local_to_sub, local_id) IN
            /\ TotalSent < MaxSend
            /\ \A h \in HandleIds :
                  (handles[h].alive /\ handles[h].rx = sub.tx) => HandleLen(h) < Cap
            /\ chans' = ActiveNotify(sub, result)
            /\ UNCHANGED local_to_sub
       ELSE UNCHANGED <<chans, local_to_sub>>
    /\ UNCHANGED <<local_to_server, handles, nchans, nhandles>>
    /\ UNCHANGED eipVars
    /\ lastOp' = Traced(Op("notify", server_id, result, 0))

notify(server_id, result) ==
    LET local_id == local_id_for(server_id) IN
    /\ IF local_id # None /\ ContainsLeft(local_to_sub, local_id)
       THEN LET sub == GetByLeft(local_to_sub, local_id)
                removed == RemoveByLeft(local_to_sub, local_id)
            IN  /\ TotalSent < MaxSend
                /\ chans' = ActiveNotify(sub, result)
                /\ local_to_sub' = BiInsertSub(removed, local_id, sub)
       ELSE UNCHANGED <<chans, local_to_sub>>
    /\ UNCHANGED <<local_to_server, handles, nchans, nhandles>>
    /\ UNCHANGED eipVars
    /\ lastOp' = Traced(Op("notify", server_id, result, 0))

\* a lookup that takes the record out of the map
get_subscription_Takes(local_id) ==
    /\ IF ContainsLeft(local_to_sub, local_id)
       THEN /\ nhandles < MaxHandles
            /\ handles' = [handles EXCEPT ![nhandles + 1] =
                              get_subscription_in(local_to_sub, chans, local_id)]
            /\ nhandles' = nhandles + 1
            /\ local_to_sub' = RemoveByLeft(local_to_sub, local_id)
       ELSE UNCHANGED <<handles, nhandles, local_to_sub>>
    /\ UNCHANGED <<local_to_server, chans, nchans>>
    /\ UNCHANGED eipVars
    /\ lastOp' = Traced(Op("get_subscription", local_id, 0, 0))

get_subscription(local_id) ==
    /\ IF ContainsLeft(local_to_sub, local_id)
       THEN /\ nhandles < MaxHandles
            /\ handles' = [handles EXCEPT ![nhandles + 1] =
                              get_subscription_in(local_to_sub, chans, local_id)]
            /\ nhandles' = nhandles + 1
       ELSE UNCHANGED <<handles, nhandles>>
    /\ UNCHANGED <<local_to_sub, local_to_server, chans, nchans>>
    /\ UNCHANGED eipVars
    /\ lastOp' = Traced(Op("get_subscription", local_id, 0, 0))

\* ---- RawSubscription ------------------------------------------------------
same_channel(h1, h2) == handles[h1].rx = handles[h2].rx

resubscribe(h) ==
    /\ handles[h].alive
    /\ nhandles < MaxHandles
    /\ handles' = [handles EXCEPT ![nhandles + 1] =
                      NewReceiver(chans, handles[h].rx, handles[h].local_id)]
    /\ nhandles' = nhandles + 1
    /\ UNCHANGED <<local_to_sub, local_to_server, chans, nchans>>
    /\ UNCHANGED eipVars
    /\ lastOp' = Op("resubscribe", h, 0, 0)

\* a read that takes the value away from every handle of the channel
try_recv_SharedCursor(h) ==
    LET r == RecvRef(handles[h]) IN
    /\ handles[h].alive
    /\ handles' = [x \in HandleIds |->
                      IF x = h
                      THEN [handles[h] EXCEPT !.next = r[2], !.got = Observe(@, r[1])]
                      ELSE IF handles[x].alive /\ handles[x].rx = handles[h].rx
                                /\ handles[x].next < r[2]
                           THEN [handles[x] EXCEPT !.next = r[2]]
                           ELSE handles[x]]
    /\ UNCHANGED <<local_to_sub, local_to_server, chans, nchans, nhandles>>
    /\ UNCHANGED eipVars
    /\ lastOp' = Traced(Op("recv", h, 0, 0))

try_recv(h) ==
    LET r == RecvRef(handles[h]) IN
    /\ handles[h].alive
    /\ handles' = [handles EXCEPT ![h].next = r[2], ![h].got = Observe(@, r[1])]
    /\ UNCHANGED <<local_to_sub, local_to_server, chans, nchans, nhandles>>
    /\ UNCHANGED eipVars
    /\ lastOp' = Traced(Op("recv", h, 0, 0))

\* the suspending read returns only once a value, a lag or closure is there
recv(h) ==
    /\ handles[h].alive
    /\ RecvRef(handles[h])[1] # Empty
    /\ try_recv(h)

\* a handle goes out of scope: its read end is unregistered
DropHandle(h) ==
    /\ handles[h].alive
    /\ handles' = [handles EXCEPT ![h] = DeadHandle]
    /\ UNCHANGED <<local_to_sub, local_to_server, chans, nchans, nhandles>>
    /\ UNCHANGED eipVars
    /\ lastOp' = Op("drop", h, 0, 0)

\* ---- Subscription<T> --------------------------------------------------------
\* serde_json::from_str::<T>: payload 1 is the JSON of a T, payload 2 is of
\* another shape; the decoded T is not the raw payload
from_str(value) == IF value = 1 THEN [ok |-> TRUE, v |-> 10 + value]
                                ELSE [ok |-> FALSE, v |-> 0]

Item(t) == [k |-> "item", v |-> t]
Other(value) == [k |-> "other", v |-> value]

\* impl From<Box<RawValue>> for SubscriptionItem<T>
Into(value) == IF from_str(value).ok THEN Item(from_str(value).v) ELSE Other(value)

Ok(t) == [k |-> "ok", v |-> t]
DecodeError == [k |-> "decode_error", v |-> 0]

\* a call on a typed handle: the method, whether its loop is still running,
\* the cursor it started at, the results its inner reads returned, what it
\* returned
Call(fn, busy, from, seen, ret) ==
    [fn |-> fn, busy |-> busy, from |-> from, seen |-> seen, ret |-> ret]

\* self.inner.try_recv() / recv() / blocking_recv() of typed handle h, the
\* call on it becoming call
InnerRead(h, call) ==
    LET r == RecvRef(handles[h]) IN
    [handles EXCEPT ![h].next = r[2], ![h].got = Observe(@, r[1]), ![h].call = call]

\* a call on a typed handle touches nothing but the handle
TypedFrame ==
    /\ UNCHANGED <<local_to_sub, local_to_server, chans, nchans, nhandles, lastOp>>
    /\ UNCHANGED eipVars

\* .map(Into::into) on the result of the inner read
MapInto(r) == IF r.k = "val" THEN Into(r.v) ELSE r

\* a tagged poll that drops a payload of another shape
try_recv_any_Discards(h) ==
    LET r == RecvRef(handles[h])[1] IN
    /\ handles[h].alive /\ ~handles[h].call.busy
    /\ handles' = InnerRead(h, Call("try_recv_any", FALSE, handles[h].next, <<r>>,
                                    IF r.k = "val" /\ ~from_str(r.v).ok
                                    THEN Empty ELSE MapInto(r)))
    /\ TypedFrame

try_recv_any(h) ==
    LET r == RecvRef(handles[h])[1] IN
    /\ handles[h].alive /\ ~handles[h].call.busy
    /\ handles' = InnerRead(h, Call("try_recv_any", FALSE, handles[h].next, <<r>>,
                                    MapInto(r)))
    /\ TypedFrame

\* recv_any and blocking_recv_any: the same on the suspending / blocking read
recv_any(h) ==
    LET r == RecvRef(handles[h])[1] IN
    /\ handles[h].alive /\ ~handles[h].call.busy
    /\ r # Empty
    /\ handles' = InnerRead(h, Call("recv_any", FALSE, handles[h].next, <<r>>,
                                    MapInto(r)))
    /\ TypedFrame

\* a strict loop that reads on after a Lagged
StrictStep_SkipsLag(h, fn) ==
    LET hd == handles[h]
        r == RecvRef(hd)[1]
        from == IF hd.call.busy THEN hd.call.from ELSE hd.next
        seen == Append(IF hd.call.busy THEN hd.call.seen ELSE <<>>, r)
    IN  /\ hd.alive
        /\ hd.call.busy => hd.call.fn = fn
        /\ handles' = InnerRead(h,
              IF r.k = "lagged" \/ (r.k = "val" /\ Into(r.v).k = "other")
              THEN Call(fn, TRUE, from, seen, Empty)
              ELSE Call(fn, FALSE, from, seen,
                        IF r.k = "val" THEN Ok(Into(r.v).v) ELSE r))
        /\ TypedFrame

\* one iteration of the loop of recv / blocking_recv / try_recv: the inner
\* read's error returns (the ? operator), an Item returns, an Other continues
StrictStep(h, fn) ==
    LET hd == handles[h]
        r == RecvRef(hd)[1]
        from == IF hd.call.busy THEN hd.call.from ELSE hd.next
        seen == Append(IF hd.call.busy THEN hd.call.seen ELSE <<>>, r)
    IN  /\ hd.alive
        /\ hd.call.busy => hd.call.fn = fn
        /\ handles' = InnerRead(h,
              IF r.k = "val" /\ Into(r.v).k = "other"
              THEN Call(fn, TRUE, from, seen, Empty)
              ELSE Call(fn, FALSE, from, seen,
                        IF r.k = "val" THEN Ok(Into(r.v).v) ELSE r))
        /\ TypedFrame

\* a strict poll that puts back a payload it cannot decode and returns Empty
Subscription_try_recv_PutsBack(h) ==
    LET hd == handles[h]
        r == RecvRef(hd)[1]
    IN  /\ hd.alive
        /\ hd.call.busy => hd.call.fn = "try_recv"
        /\ handles' = IF r.k = "val" /\ Into(r.v).k = "other"
                       THEN [handles EXCEPT ![h].call =
                                Call("try_recv", FALSE, hd.next, <<r>>, Empty)]
                       ELSE InnerRead(h, Call("try_recv", FALSE, hd.next, <<r>>,
                                              IF r.k = "val" THEN Ok(Into(r.v).v) ELSE r))
        /\ TypedFrame

Subscription_try_recv(h) ==
    /\ handles[h].alive
    /\ StrictStep(h, "try_recv")

\* Subscription::recv and blocking_recv: each iteration waits for the inner read
Subscription_recv(h) ==
    /\ handles[h].alive
    /\ RecvRef(handles[h])[1] # Empty
    /\ StrictStep(h, "recv")

\* .map(|value| serde_json::from_str(value.get())) on the result of the inner read
MapFromStr(r) ==
    IF r.k = "val"
    THEN IF from_str(r.v).ok THEN Ok(from_str(r.v).v) ELSE DecodeError
    ELSE r

\* an explicit-result poll that reads on after a payload that does not decode
try_recv_result_Retries(h) ==
    LET r == RecvRef(handles[h])[1]
        hd1 == [handles[h] EXCEPT !.next = RecvRef(handles[h])[2]]
        r2 == IF r.k = "val" /\ ~from_str(r.v).ok THEN RecvRef(hd1) ELSE RecvRef(handles[h])
    IN  /\ handles[h].alive /\ ~handles[h].call.busy
        /\ handles' = [handles EXCEPT ![h].next = r2[2],
                                      ![h].got = Observe(@, r2[1]),
                                      ![h].call = Call("try_recv_result", FALSE,
                                                       handles[h].next, <<r>>,
                                                       MapFromStr(r2[1]))]
        /\ TypedFrame

try_recv_result(h) ==
    LET r == RecvRef(handles[h])[1] IN
    /\ handles[h].alive /\ ~handles[h].call.busy
    /\ handles' = InnerRead(h, Call("try_recv_result", FALSE, handles[h].next, <<r>>,
                                    MapFromStr(r)))
    /\ TypedFrame

\* recv_result and blocking_recv_result
recv_result(h) ==
    LET r == RecvRef(handles[h])[1] IN
    /\ handles[h].alive /\ ~handles[h].call.busy
    /\ r # Empty
    /\ handles' = InnerRead(h, Call("recv_result", FALSE, handles[h].next, <<r>>,
                                    MapFromStr(r)))
    /\ TypedFrame

\* notify for a known server id, up to MaxPublish values
publish(server_id, result) ==
    LET local_id == local_id_for(server_id) IN
    /\ local_id # None /\ ContainsLeft(local_to_sub, local_id)
    /\ TotalSent < MaxPublish
    /\ LET sub == GetByLeft(local_to_sub, local_id)
           removed == RemoveByLeft(local_to_sub, local_id)
       IN  /\ chans' = ActiveNotify(sub, result)
           /\ local_to_sub' = BiInsertSub(removed, local_id, sub)
    /\ UNCHANGED <<local_to_server, handles, nchans, nhandles, lastOp>>
    /\ UNCHANGED eipVars

Next ==
    \/ \E request \in Requests, server_id \in Servers : upsert(request, server_id)
    \/ drop_server_ids
    \/ \E local_id \in Locals : remove_sub(local_id)
    \/ \E server_id \in Servers, result \in Payloads : notify(server_id, result)
    \/ \E local_id \in Locals : get_subscription(local_id)
    \/ \E h \in HandleIds : resubscribe(h)
    \/ \E h \in HandleIds : try_recv(h)
    \/ \E h \in HandleIds : recv(h)
    \/ \E h \in HandleIds : DropHandle(h)

Spec == Init /\ [][Next]_vars

\* a reader that keeps reading: the suspending read of every handle is taken
\* whenever it stays possible
FairSpec == Spec /\ \A h \in HandleIds : WF_vars(recv(h))


\* one subscription with its typed handle: the state after upsert(1, 1)
TypedInit ==
    /\ local_to_sub = {<<params_hash(1), ActiveNew(1, 1)>>}
    /\ local_to_server = {<<params_hash(1), 1>>}
    /\ chans = [c \in ChanIds |-> <<>>]
    /\ handles = [h \in HandleIds |->
                     IF h = 1 THEN NewReceiver(chans, 1, params_hash(1)) ELSE DeadHandle]
    /\ nchans = 1
    /\ nhandles = 1
    /\ lastOp = Op("upsert", 1, 1, None)
    /\ excess_blob_gas = 0
    /\ blob_gas_used = 0
    /\ height = 0
    /\ ExpIdle

TypedNext ==
    \/ \E server_id \in Servers, result \in Payloads : publish(server_id, result)
    \/ \E local_id \in Locals : remove_sub(local_id)
    \/ \E h \in HandleIds : try_recv_any(h)
    \/ \E h \in HandleIds : recv_any(h)
    \/ \E h \in HandleIds : Subscription_try_recv(h)
    \/ \E h \in HandleIds : Subscription_recv(h)
    \/ \E h \in HandleIds : try_recv_result(h)
    \/ \E h \in HandleIds : recv_result(h)

TypedSpec == TypedInit /\ [][TypedNext]_vars

\* try_recv is a synchronous loop: the thread that called it runs its next
\* iteration, so a call in progress on a handle takes its next step
FairTypedSpec ==
    TypedSpec /\ \A h \in HandleIds :
                    WF_vars(handles[h].call.busy /\ Subscription_try_recv(h))


\* ---- eip4844 -----------------------------------------------------------------
DATA_GAS_PER_BLOB == 131072

MAX_DATA_GAS_PER_BLOCK == 786432

TARGET_DATA_GAS_PER_BLOCK == 393216

MAX_BLOBS_PER_BLOCK == MAX_DATA_GAS_PER_BLOCK \div DATA_GAS_PER_BLOB

\* u64::saturating_sub
saturating_sub(a, b) == IF a > b THEN a - b ELSE 0

\* an excess computed with a plain subtraction
calc_excess_blob_gas_PlainSub(parent_excess_blob_gas, parent_blob_gas_used) ==
    (parent_excess_blob_gas + parent_blob_gas_used) - TARGET_DATA_GAS_PER_BLOCK

\* for inputs whose sum is a u64 (the sums of the model are far below 2^64)
calc_excess_blob_gas(parent_excess_blob_gas, parent_blob_gas_used) ==
    saturating_sub(parent_excess_blob_gas + parent_blob_gas_used,
                   TARGET_DATA_GAS_PER_BLOCK)

\* excess blob gas of the first header
ExcessSamples == {0, 1, DATA_GAS_PER_BLOB - 1, DATA_GAS_PER_BLOB,
                  TARGET_DATA_GAS_PER_BLOCK}

\* blob gas a block can use: that of 0 .. MAX_BLOBS_PER_BLOCK blobs
UsedSamples == {blobs * DATA_GAS_PER_BLOB : blobs \in 0..MAX_BLOBS_PER_BLOCK}

GasInit ==
    /\ local_to_sub = {}
    /\ local_to_server = {}
    /\ chans = [c \in ChanIds |-> <<>>]
    /\ handles = [h \in HandleIds |-> DeadHandle]
    /\ nchans = 0
    /\ nhandles = 0
    /\ lastOp = Op("init", 0, 0, 0)
    /\ excess_blob_gas \in ExcessSamples
    /\ blob_gas_used \in UsedSamples
    /\ height = 0
    /\ ExpIdle

\* the header of the next block: its excess is computed from its parent's fields
NextBlock(used) ==
    /\ height < MaxHeight
    /\ excess_blob_gas' = calc_excess_blob_gas(excess_blob_gas, blob_gas_used)
    /\ blob_gas_used' = used
    /\ height' = height + 1
    /\ UNCHANGED pubsubVars
    /\ UNCHANGED expVars

GasNext == \E used \in UsedSamples : NextBlock(used)

GasSpec == GasInit /\ [][GasNext]_vars

\* ---- fake_exponential --------------------------------------------------------
BLOB_GASPRICE_UPDATE_FRACTION == 3338477

BLOB_TX_MIN_BLOB_GASPRICE == 1

\* A u64 or u128 value is its little-endian bytes without the leading zero
\* bytes (0 is the empty sequence): the values of the loop exceed the integers
\* of the checker.
Base == 256

RECURSIVE Big(_)
Big(n) == IF n = 0 THEN <<>> ELSE <<n % Base>> \o Big(n \div Base)

\* without the leading zero bytes
Norm(a) ==
    LET n == CHOOSE k \in 0..Len(a) :
                 /\ k = 0 \/ a[k] # 0
                 /\ \A j \in (k + 1)..Len(a) : a[j] = 0
    IN  SubSeq(a, 1, n)

RECURSIVE AddC(_, _, _)
AddC(a, b, c) ==
    IF a = <<>> /\ b = <<>> THEN Big(c)
    ELSE LET s == (IF a = <<>> THEN 0 ELSE Head(a)) + (IF b = <<>> THEN 0 ELSE Head(b)) + c
         IN  <<s % Base>> \o AddC(IF a = <<>> THEN <<>> ELSE Tail(a),
                                  IF b = <<>> THEN <<>> ELSE Tail(b), s \div Base)

\* a + b, unbounded
Add(a, b) == AddC(a, b, 0)

RECURSIVE MulC(_, _, _)
MulC(a, d, c) ==
    IF a = <<>> THEN Big(c)
    ELSE LET s == Head(a) * d + c IN <<s % Base>> \o MulC(Tail(a), d, s \div Base)

\* a * d for d < Base
MulDigit(a, d) == IF d = 0 THEN <<>> ELSE MulC(a, d, 0)

\* a * Base
Shift(a) == IF a = <<>> THEN <<>> ELSE <<0>> \o a

\* a * b, unbounded
RECURSIVE Mul(_, _)
Mul(a, b) ==
    IF a = <<>> \/ b = <<>> THEN <<>>
    ELSE Add(MulDigit(a, Head(b)), Shift(Mul(a, Tail(b))))

\* a < b
Less(a, b) ==
    IF Len(a) # Len(b) THEN Len(a) < Len(b)
    ELSE \E k \in 1..Len(a) : a[k] < b[k] /\ \A j \in (k + 1)..Len(a) : a[j] = b[j]

RECURSIVE SubB(_, _, _)
SubB(a, b, borrow) ==
    IF a = <<>> THEN <<>>
    ELSE LET y == (IF b = <<>> THEN 0 ELSE Head(b)) + borrow
             tb == IF b = <<>> THEN <<>> ELSE Tail(b)
         IN  IF Head(a) >= y THEN <<Head(a) - y>> \o SubB(Tail(a), tb, 0)
             ELSE <<Head(a) + Base - y>> \o SubB(Tail(a), tb, 1)

\* a - b for a >= b
Sub(a, b) == Norm(SubB(a, b, 0))

\* the largest d in lo..hi with b * d <= cur
RECURSIVE QDigit(_, _, _, _)
QDigit(cur, b, lo, hi) ==
    IF lo = hi THEN lo
    ELSE LET mid == (lo + hi + 1) \div 2
         IN  IF Less(cur, MulDigit(b, mid)) THEN QDigit(cur, b, lo, mid - 1)
             ELSE QDigit(cur, b, mid, hi)

\* long division, one byte: from qr, the quotient and remainder of the higher
\* bytes by b, those of d0 + Base * (the higher bytes)
DivStep(qr, d0, b) ==
    LET cur == Norm(<<d0>> \o qr[2])
        q == QDigit(cur, b, 0, Base - 1)
    IN  <<Norm(<<q>> \o qr[1]), Sub(cur, MulDigit(b, q))>>

RECURSIVE DivMod(_, _)
DivMod(a, b) ==
    IF a = <<>> THEN <<<<>>, <<>>>>
    ELSE CHOOSE r \in {DivStep(qr, Head(a), b) : qr \in {DivMod(Tail(a), b)}} : TRUE

\* a / b of unsigned integers, for b > 0
Div(a, b) == DivMod(a, b)[1]

\* the value written in decimal, most significant digit first
RECURSIVE Dec(_)
Dec(ds) ==
    IF ds = <<>> THEN <<>>
    ELSE Add(MulDigit(Dec(SubSeq(ds, 1, Len(ds) - 1)), 10), Big(ds[Len(ds)]))

U64_MAX == [k \in 1..8 |-> Base - 1]

\* the value is a u128
Fits128(a) == Len(a) <= 16

\* the value modulo 2^128: what an operation on u128 leaves without overflow checks
Wrap128(a) == Norm(SubSeq(a, 1, IF Len(a) < 16 THEN Len(a) ELSE 16))

\* the arguments calc_blob_gasprice passes
calc_blob_gasprice(excess) ==
    <<Big(BLOB_TX_MIN_BLOB_GASPRICE), Big(excess), Big(BLOB_GASPRICE_UPDATE_FRACTION)>>

\* tests::fake_exp: factor, numerator, denominator, expected
FakeExpVectors ==
    {<<Big(1), Big(0), Big(1), Big(1)>>,
     <<Big(38493), Big(0), Big(1000), Big(38493)>>,
     <<Big(0), Big(1234), Big(2345), Big(0)>>,
     <<Big(1), Big(2), Big(1), Big(6)>>,
     <<Big(1), Big(4), Big(2), Big(6)>>,
     <<Big(1), Big(3), Big(1), Big(16)>>,
     <<Big(1), Big(6), Big(2), Big(18)>>,
     <<Big(1), Big(4), Big(1), Big(49)>>,
     <<Big(1), Big(8), Big(2), Big(50)>>,
     <<Big(10), Big(8), Big(2), Big(542)>>,
     <<Big(11), Big(8), Big(2), Big(596)>>,
     <<Big(1), Big(5), Big(1), Big(136)>>,
     <<Big(1), Big(5), Big(2), Big(11)>>,
     <<Big(2), Big(5), Big(2), Big(23)>>,
     <<Big(1), Big(50000000), Big(2225652), Dec(<<5, 7, 0, 9, 0, 9, 8, 7, 6, 4>>)>>,
     <<Big(1), Big(380928), Big(BLOB_GASPRICE_UPDATE_FRACTION), Big(1)>>}

\* tests::test_calc_blob_fee: excess blob gas, expected
BlobFeeVectors ==
    {<<0, Big(1)>>, <<2314057, Big(1)>>, <<2314058, Big(2)>>,
     <<10 * 1024 * 1024, Big(23)>>,
     <<148099578, Dec(<<1, 8, 4, 4, 6, 7, 3, 9, 2, 3, 8, 9, 7, 1, 4, 7, 1, 6, 0, 9>>)>>,
     <<148099579, Dec(<<1, 8, 4, 4, 6, 7, 4, 4, 7, 6, 2, 2, 0, 4, 3, 1, 1, 9, 1, 0>>)>>,
     <<161087488, Dec(<<9, 0, 2, 5, 8, 0, 0, 5, 5, 2, 4, 6, 4, 9, 4, 5, 2, 6, 5, 8, 0>>)>>}

\* the calls made: those of the tests, calls with a zero denominator, and
\* calls with a larger exponent
ExpSamples ==
    {<<v[1], v[2], v[3]>> : v \in FakeExpVectors}
        \cup {calc_blob_gasprice(v[1]) : v \in BlobFeeVectors}
        \cup {<<Big(1), Big(1), Big(0)>>, <<Big(0), Big(0), Big(0)>>,
              <<Big(1), Big(0), Big(0)>>}
        \cup {<<Big(1), Big(88), Big(1)>>, <<Big(1), U64_MAX, Big(1)>>,
              <<U64_MAX, Big(1), U64_MAX>>, calc_blob_gasprice(192204553)}

ExpInit ==
    /\ local_to_sub = {}
    /\ local_to_server = {}
    /\ chans = [c \in ChanIds |-> <<>>]
    /\ handles = [h \in HandleIds |-> DeadHandle]
    /\ nchans = 0
    /\ nhandles = 0
    /\ lastOp = Op("init", 0, 0, 0)
    /\ excess_blob_gas = 0
    /\ blob_gas_used = 0
    /\ height = 0
    /\ \E args \in ExpSamples :
          factor = args[1] /\ numerator = args[2] /\ denominator = args[3]
    /\ overflow_checks \in BOOLEAN
    /\ iter = 0 /\ output = <<>> /\ numerator_accum = <<>>
    /\ pc = "call" /\ returned = <<>>

\* the call up to the loop: assert_ne!(denominator, 0), then i = 1, output = 0,
\* numerator_accum = factor * denominator (the product of two u64 is a u128)
fake_exponential ==
    /\ pc = "call"
    /\ IF denominator = <<>>
       THEN pc' = "panicked" /\ UNCHANGED <<iter, output, numerator_accum>>
       ELSE /\ pc' = "loop"
            /\ iter' = 1
            /\ output' = <<>>
            /\ numerator_accum' = Mul(factor, denominator)
    /\ UNCHANGED <<factor, numerator, denominator, returned, overflow_checks>>
    /\ UNCHANGED pubsubVars
    /\ UNCHANGED gasVars

\* the loop's test and one iteration, or the return after the loop; an
\* addition or multiplication whose result is no u128 panics with overflow
\* checks and wraps without them
TaylorStep ==
    /\ pc = "loop"
    /\ iter <= MaxIter
    /\ IF numerator_accum = <<>>
       THEN /\ pc' = "returned"
            /\ returned' = Div(output, denominator)
            /\ UNCHANGED <<iter, output, numerator_accum>>
       ELSE \E sum \in {Add(output, numerator_accum)},
               prod \in {Mul(numerator_accum, numerator)} :
                IF (~Fits128(sum) \/ ~Fits128(prod)) /\ overflow_checks
                THEN /\ pc' = "panicked"
                     /\ UNCHANGED <<iter, output, numerator_accum, returned>>
                ELSE /\ output' = Wrap128(sum)
                     /\ numerator_accum' = Div(Wrap128(prod), Mul(denominator, Big(iter)))
                     /\ iter' = iter + 1
                     /\ UNCHANGED <<pc, returned>>
    /\ UNCHANGED <<factor, numerator, denominator, overflow_checks>>
    /\ UNCHANGED pubsubVars
    /\ UNCHANGED gasVars

ExpNext == fake_exponential \/ TaylorStep

ExpSpec == ExpInit /\ [][ExpNext]_vars

\* ---- properties ------------------------------------------------------------

\* the live handles of local id L: minted from the record L has now
HandlesOf(L) ==
    {h \in HandleIds : /\ handles[h].alive
                       /\ handles[h].local_id = L
                       /\ SenderAlive(local_to_sub, handles[h].rx)}

\* C1 (dedup): an upsert whose request hashes to a local id L that already has
\* a record returns a handle on the same channel as every handle minted for
\* that record before (the one returned by the earlier upsert among them), adds
\* no record (the first upsert for L added exactly one), leaves its server id
\* resolving to L, and the server id L had before, when different, resolving
\* to nothing.
C1_Dedup ==
    [][\A request \in Requests, server_id \in Servers :
          LET L == params_hash(request)
              s1 == ServerOf(local_to_server, L)
          IN  upsert(request, server_id) =>
                IF ContainsLeft(local_to_sub, L)
                THEN /\ len' = len
                     /\ \A h1 \in HandlesOf(L) :
                            handles'[h1].rx = handles'[nhandles + 1].rx
                     /\ handles'[nhandles + 1].alive
                     /\ GetByRight(local_to_server', server_id) = L
                     /\ (s1 # None /\ s1 # server_id) =>
                            GetByRight(local_to_server', s1) = None
                ELSE /\ len' = len + 1
                     /\ GetByRight(local_to_server', server_id) = L
      ]_vars

\* Two upserts with different requests of one hash and different server ids
\* have been made: both handles are alive on one channel of the one record.
C1_Witness ==
    /\ lastOp.op = "upsert" /\ lastOp.a = 2
    /\ lastOp.c # None /\ lastOp.c # lastOp.b
    /\ nhandles = 2 /\ handles[1].alive /\ handles[2].alive
    /\ same_channel(1, 2)
    /\ len = 1
    /\ local_id_for(lastOp.b) = params_hash(2)

\* C2 (I2): the local id / server id association is one-to-one: no local id
\* has two server ids and no server id has two local ids.
C2_Bijective ==
    \A p \in local_to_server, q \in local_to_server :
        (p[1] = q[1] \/ p[2] = q[2]) => p = q

\* An upsert took over a server id: two records, one mapping left.
C2_Witness ==
    /\ lastOp.op = "upsert"
    /\ len = 2
    /\ Cardinality(local_to_server) = 1

\* C3 (I3): whatever local_id_for resolves a server id to has a record, so
\* get_subscription on it returns a handle.
C3_NoDangling ==
    /\ \A s \in Servers :
          local_id_for(s) # None =>
              /\ ContainsLeft(local_to_sub, local_id_for(s))
              /\ get_subscription_in(local_to_sub, chans, local_id_for(s)).alive
    /\ {p[1] : p \in local_to_server} \subseteq {p[1] : p \in local_to_sub}

\* A record was removed while another local id keeps its server id.
C3_Witness ==
    /\ lastOp.op = "remove_sub"
    /\ len = 1
    /\ Cardinality(local_to_server) = 1

\* the values a handle with record hd has not read yet, channels being cs
UnreadIn(cs, hd) == SubSeq(cs[hd.rx], hd.next + 1, Len(cs[hd.rx]))

\* The cursor a handle minted at pos ends at after reading the results got from
\* a channel that has carried sent; -1 when got is not what such a handle reads:
\* each value is the next one of sent, Lagged(n) skips n of them, Closed comes
\* last and only at the end of sent.
RECURSIVE CursorAfter(_, _, _)
CursorAfter(got, pos, sent) ==
    IF got = <<>> THEN pos
    ELSE LET r == Head(got) IN
         IF r.k = "val"
         THEN IF pos < Len(sent) /\ sent[pos + 1] = r.v
              THEN CursorAfter(Tail(got), pos + 1, sent) ELSE 0 - 1
         ELSE IF r.k = "lagged"
         THEN IF r.v > 0 /\ pos + r.v <= Len(sent)
              THEN CursorAfter(Tail(got), pos + r.v, sent) ELSE 0 - 1
         ELSE IF r.k = "closed" /\ Tail(got) = <<>> /\ pos = Len(sent)
              THEN pos ELSE 0 - 1

Untouched ==
    /\ UNCHANGED <<local_to_sub, local_to_server, chans, handles>>
    /\ \A h \in HandleIds :
          handles[h].alive =>
             Len(chans'[handles'[h].rx]) - handles'[h].next = HandleLen(h)

\* C5 (dangling frame): a notify whose server id has no mapping changes
\* nothing: not the two mappings, not a channel, not a handle or its len();
\* so for a server id never registered, for every server id right after
\* drop_server_ids, for the server id an upsert has just rotated away from and
\* for the server id of a record just removed.
C5_DanglingFrame ==
    [][\A server_id \in Servers, result \in Payloads :
          notify(server_id, result) =>
             /\ local_id_for(server_id) = None => Untouched
             /\ lastOp.op = "init" => Untouched
             /\ lastOp.op = "drop_server_ids" => Untouched
             /\ (lastOp.op = "upsert" /\ lastOp.c = server_id /\ lastOp.b # server_id)
                   => Untouched
             /\ (lastOp.op = "remove_sub" /\ lastOp.b = server_id) => Untouched
      ]_vars

\* The server id of a record with a live handle has just been rotated away
\* from: a frame that still carries it finds no mapping (and, changing
\* nothing, leaves this very state behind).
C5_Witness ==
    /\ lastOp.op = "upsert" /\ lastOp.c # None /\ lastOp.c # lastOp.b
    /\ local_id_for(lastOp.c) = None
    /\ \A v \in Payloads : ENABLED notify(lastOp.c, v)
    /\ \E h \in HandleIds : handles[h].alive /\ HandleLen(h) > 0

\* C6 (drop_server_ids frame): drop_server_ids leaves no server id resolving
\* to anything and changes nothing else: the records, their channels, the
\* handles and what is buffered for them stay, and get_subscription still
\* returns a handle on the channel of each record.
C6_DropServerIdsFrame ==
    [][drop_server_ids =>
          /\ \A s \in Servers : GetByRight(local_to_server', s) = None
          /\ local_to_sub' = local_to_sub
          /\ chans' = chans
          /\ handles' = handles
          /\ \A L \in Locals :
                ContainsLeft(local_to_sub, L) =>
                   LET hd == get_subscription_in(local_to_sub', chans', L) IN
                   hd.alive /\ hd.rx = GetByLeft(local_to_sub, L).tx
      ]_vars

\* drop_server_ids has cleared the server ids of two records, one of which has
\* a handle with a value buffered.
C6_Witness ==
    /\ lastOp.op = "drop_server_ids"
    /\ local_to_server = {}
    /\ len = 2
    /\ \E h \in HandleIds : handles[h].alive /\ HandleLen(h) > 0

C8_AtomicRemoval ==
    [][\A L \in Locals :
          remove_sub(L) =>
             /\ ~ContainsLeft(local_to_sub', L)
             /\ ~get_subscription_in(local_to_sub', chans', L).alive
             /\ \A s \in Servers : GetByRight(local_to_server', s) # L
             /\ ServerOf(local_to_server, L) # None =>
                   GetByRight(local_to_server', ServerOf(local_to_server, L)) = None
             /\ \A L2 \in Locals \ {L} :
                   /\ ContainsLeft(local_to_sub', L2) = ContainsLeft(local_to_sub, L2)
                   /\ ContainsLeft(local_to_sub, L2) =>
                         GetByLeft(local_to_sub', L2) = GetByLeft(local_to_sub, L2)
                   /\ ServerOf(local_to_server', L2) = ServerOf(local_to_server, L2)
      ]_vars

\* A record that had a server id was removed; the other record keeps its own.
C8_Witness ==
    /\ lastOp.op = "remove_sub" /\ lastOp.b # None
    /\ ~ContainsLeft(local_to_sub, lastOp.a)
    /\ local_id_for(lastOp.b) = None
    /\ len = 1 /\ Cardinality(local_to_server) = 1
    /\ \E h \in HandleIds : handles[h].alive /\ handles[h].local_id = lastOp.a

EndsClosed(got) == got # <<>> /\ got[Len(got)] = Closed

\* C9 (closure after removal): after remove_sub(L) a handle of L that keeps
\* reading comes to observe Closed (after the values still buffered for it);
\* a handle that has observed Closed reads Closed again; a channel whose record
\* is gone never gets a record or a value again, and an upsert that creates a
\* record for L gives it a new channel, none of the old handles being on it.
C9_ClosureAfterRemoval ==
    /\ \A h \in HandleIds, L \in Locals :
          (/\ lastOp.op = "remove_sub" /\ lastOp.a = L
           /\ handles[h].alive /\ handles[h].local_id = L)
             ~> (~handles[h].alive \/ EndsClosed(handles[h].got))
    /\ [](\A h \in HandleIds :
             (handles[h].alive /\ EndsClosed(handles[h].got)) =>
                RecvRef(handles[h])[1] = Closed)
    /\ [][\A c \in ChanIds :
             (c <= nchans /\ ~SenderAlive(local_to_sub, c)) =>
                (~SenderAlive(local_to_sub', c) /\ chans'[c] = chans[c])
         ]_vars
    /\ [][\A request \in Requests, server_id \in Servers :
             (upsert(request, server_id) /\ nchans' = nchans + 1) =>
                \A h \in HandleIds :
                    handles[h].alive =>
                       /\ handles'[h] = handles[h]
                       /\ handles'[h].rx # handles'[nhandles + 1].rx
         ]_vars

\* A handle has read its buffered value and then Closed after its record was
\* removed; the same request was upserted again and a value published on the
\* new channel, and the old handle still reads Closed.
C9_Witness ==
    /\ handles[1].alive /\ handles[2].alive
    /\ handles[1].local_id = handles[2].local_id
    /\ ~same_channel(1, 2)
    /\ Len(handles[1].got) = 2 /\ handles[1].got[1].k = "val"
    /\ EndsClosed(handles[1].got)
    /\ RecvRef(handles[1])[1] = Closed
    /\ SenderAlive(local_to_sub, handles[2].rx)
    /\ chans[handles[2].rx] # <<>>

\* C10 (no replay): a handle minted on an existing channel (by resubscribe, by
\* get_subscription, by upsert on an existing record) starts with nothing to
\* read, whatever older handles still have buffered; every value it reads
\* later was published after it was minted, and until it lags it reads exactly
\* the values published since, in order.
C10_NoReplay ==
    /\ [][(nhandles' = nhandles + 1 /\ nchans' = nchans) =>
             LET hd == handles'[nhandles + 1] IN
             /\ hd.alive
             /\ hd.next = Len(chans[hd.rx])
             /\ UnreadIn(chans', hd) = <<>>
             /\ hd.got = <<>>
         ]_vars
    /\ [](\A h \in HandleIds :
             LET hd == handles[h]
                 sent == chans[hd.rx]
             IN  hd.alive =>
                   /\ \A i \in 1..Len(hd.got) :
                         hd.got[i].k = "val" =>
                            LET p == CursorAfter(SubSeq(hd.got, 1, i), hd.start, sent) IN
                            p > hd.start /\ sent[p] = hd.got[i].v
                   /\ (\A i \in 1..Len(hd.got) : hd.got[i].k # "lagged") =>
                         \A i \in 1..(hd.next - hd.start) :
                             hd.got[i] = Val(sent[hd.start + i]))

\* A handle minted after the first value was published has read the second
\* value only, while the older handle on the channel has read both.
C10_Witness ==
    \E h1 \in HandleIds, h2 \in HandleIds :
        /\ handles[h1].alive /\ handles[h2].alive /\ same_channel(h1, h2)
        /\ chans[handles[h1].rx] = <<1, 2>>
        /\ handles[h1].start = 0 /\ handles[h1].got = <<Val(1), Val(2)>>
        /\ handles[h2].start = 1 /\ handles[h2].got = <<Val(2)>>

\* C11 (lag): a read on a handle that has more than Cap values unread returns
\* Lagged(n), n being the number of values it can no longer read, and moves the
\* cursor to the oldest retained value, so the read that follows returns that
\* value and not an error.
C11_Lag ==
    [][\A h \in HandleIds :
          (try_recv(h) /\ HandleLen(h) > Cap) =>
             LET sent == chans[handles[h].rx]
                 n == HandleLen(h) - Cap
             IN  /\ handles'[h].got = Append(handles[h].got, Lagged(n))
                 /\ handles'[h].next = handles[h].next + n
                 /\ handles'[h].next = Len(sent) - Cap
                 /\ RecvRef(handles'[h]) =
                       <<Val(sent[Len(sent) - Cap + 1]), Len(sent) - Cap + 1>>
      ]_vars

\* A handle minted before two values were published has read Lagged(1) and
\* then the second value.
C11_Witness ==
    \E h \in HandleIds :
        /\ handles[h].alive /\ handles[h].start = 0
        /\ Len(chans[handles[h].rx]) = Cap + 1
        /\ handles[h].got = <<Lagged(1), Val(chans[handles[h].rx][2])>>

\* C12 (non-blocking writer): a notify for a known server id can always be
\* taken, whatever the handles have unread, and touches no handle and no
\* mapping; a handle that had Cap values unread has one more afterwards, the
\* oldest being overwritten (its next read is Lagged); with no live handle on
\* the record's channel the value is discarded: the channel is as before, the
\* record stays, and a handle minted afterwards has nothing to read.
C12_NonBlockingWriter ==
    /\ [](\A s \in Servers, v \in Payloads :
             (local_id_for(s) # None /\ TotalSent < MaxSend) => ENABLED notify(s, v))
    /\ [][\A s \in Servers, v \in Payloads :
             LET L == local_id_for(s) IN
             (notify(s, v) /\ L # None) =>
                LET c == GetByLeft(local_to_sub, L).tx IN
                /\ handles' = handles
                /\ local_to_sub' = local_to_sub
                /\ local_to_server' = local_to_server
                /\ \A h \in HandleIds :
                      (handles[h].alive /\ handles[h].rx = c /\ HandleLen(h) = Cap) =>
                         /\ Len(chans'[c]) - handles'[h].next = Cap + 1
                         /\ RecvRef(handles[h])'[1] = Lagged(1)
                /\ receiver_count(c) = 0 =>
                      /\ chans' = chans
                      /\ ContainsLeft(local_to_sub', L)
                      /\ UnreadIn(chans', get_subscription_in(local_to_sub', chans', L)) = <<>>
         ]_vars

\* A notify has overwritten the oldest unread value of a handle, while another
\* record that still has its server id is left with no live handle and an
\* empty channel.
C12_Witness ==
    /\ lastOp.op = "notify"
    /\ \E h \in HandleIds : handles[h].alive /\ HandleLen(h) = Cap + 1
    /\ \E p \in local_to_sub :
          /\ ServerOf(local_to_server, p[1]) # None
          /\ receiver_count(p[2].tx) = 0
          /\ chans[p[2].tx] = <<>>
    /\ nhandles = 2

\* C16 (get_subscription frame): get_subscription(L) changes neither mapping,
\* no channel and no existing handle (its cursor and what is buffered for it);
\* with a record for L it returns a handle of L on the record's channel,
\* without one it returns nothing.
C16_GetSubscriptionFrame ==
    [][\A L \in Locals :
          get_subscription(L) =>
             /\ local_to_sub' = local_to_sub
             /\ local_to_server' = local_to_server
             /\ chans' = chans
             /\ \A h \in HandleIds :
                   h # nhandles + 1 =>
                      /\ handles'[h] = handles[h]
                      /\ handles[h].alive =>
                            UnreadIn(chans', handles'[h]) = UnreadIn(chans, handles[h])
             /\ IF ContainsLeft(local_to_sub, L)
                THEN /\ nhandles' = nhandles + 1
                     /\ handles'[nhandles + 1].alive
                     /\ handles'[nhandles + 1].local_id = L
                     /\ handles'[nhandles + 1].rx = GetByLeft(local_to_sub, L).tx
                ELSE handles' = handles /\ nhandles' = nhandles
      ]_vars

\* get_subscription has minted a second handle on the channel of a handle that
\* still has a value buffered.
C16_Witness ==
    /\ lastOp.op = "get_subscription"
    /\ nhandles = 2 /\ handles[1].alive /\ handles[2].alive
    /\ same_channel(1, 2)
    /\ handles[2].local_id = lastOp.a
    /\ HandleLen(1) = 1 /\ HandleLen(2) = 0
    /\ len = 1 /\ local_to_server # {}

\* the local ids that have a record
RecordIds(subs) == {p[1] : p \in subs}

\* C18 (record lifecycle): the set of records changes only by an upsert for a
\* local id without a record, which adds that one, and by a remove_sub of a
\* local id with a record, which removes that one; a notify leaves len, both
\* mappings and every record with its channel as they were; a record keeps its
\* channel for as long as it exists, and every handle minted for it (by upsert,
\* by get_subscription, by resubscribe of one of its handles) is on that
\* channel, so the handles minted before and after notify, drop_server_ids and
\* rotating upserts share it.
C18_RecordLifecycle ==
    /\ [][RecordIds(local_to_sub') # RecordIds(local_to_sub) =>
             \/ \E request \in Requests, server_id \in Servers :
                   /\ upsert(request, server_id)
                   /\ params_hash(request) \notin RecordIds(local_to_sub)
                   /\ RecordIds(local_to_sub') =
                         RecordIds(local_to_sub) \cup {params_hash(request)}
             \/ \E L \in Locals :
                   /\ remove_sub(L)
                   /\ L \in RecordIds(local_to_sub)
                   /\ RecordIds(local_to_sub') = RecordIds(local_to_sub) \ {L}
         ]_vars
    /\ [][\A server_id \in Servers, result \in Payloads :
             notify(server_id, result) =>
                /\ len' = len
                /\ local_to_sub' = local_to_sub
                /\ local_to_server' = local_to_server
         ]_vars
    /\ [][\A L \in Locals :
             L \in RecordIds(local_to_sub) =>
                /\ L \in RecordIds(local_to_sub') =>
                      GetByLeft(local_to_sub', L) = GetByLeft(local_to_sub, L)
                /\ \A request \in Requests, server_id \in Servers :
                      (upsert(request, server_id) /\ params_hash(request) = L) =>
                         handles'[nhandles + 1].rx = GetByLeft(local_to_sub, L).tx
                /\ (get_subscription(L) /\ nhandles' = nhandles + 1) =>
                      handles'[nhandles + 1].rx = GetByLeft(local_to_sub, L).tx
                /\ \A h \in HandlesOf(L) :
                      resubscribe(h) =>
                         handles'[nhandles + 1].rx = GetByLeft(local_to_sub, L).tx
         ]_vars
    /\ [](\A L \in Locals :
             \A h1 \in HandlesOf(L), h2 \in HandlesOf(L) : same_channel(h1, h2))

\* One record, notified twice: the handle minted before the first notify and
\* the handle minted between the two are on its one channel.
C18_Witness ==
    /\ lastOp.op = "notify"
    /\ len = 1 /\ nchans = 1 /\ Cardinality(local_to_server) = 1
    /\ nhandles = 2 /\ handles[1].alive /\ handles[2].alive
    /\ handles[1].start = 0 /\ handles[2].start = 1
    /\ Len(chans[1]) = 2
    /\ same_channel(1, 2)

\* got1 is a prefix of got2
IsPrefix(got1, got2) ==
    Len(got1) <= Len(got2) /\ SubSeq(got2, 1, Len(got1)) = got1

C20_Takeover ==
    /\ [][\A request \in Requests, s \in Servers :
             LET L == params_hash(request)
                 L2 == local_id_for(s)
             IN  (upsert(request, s) /\ L2 # None /\ L2 # L) =>
                    /\ GetByRight(local_to_server', s) = L
                    /\ Cardinality({p \in local_to_server' : p[2] = s}) = 1
                    /\ ContainsLeft(local_to_sub', L2)
                    /\ GetByLeft(local_to_sub', L2) = GetByLeft(local_to_sub, L2)
                    /\ ServerOf(local_to_server', L2) = None
         ]_vars
    /\ [][\A s \in Servers, result \in Payloads, L2 \in Locals :
             (/\ notify(s, result)
              /\ ContainsLeft(local_to_sub, L2)
              /\ \/ ServerOf(local_to_server, L2) = None
                 \/ local_id_for(s) # L2) =>
                /\ chans'[GetByLeft(local_to_sub, L2).tx] =
                      chans[GetByLeft(local_to_sub, L2).tx]
                /\ \A h \in HandlesOf(L2) :
                      UnreadIn(chans', handles'[h]) = UnreadIn(chans, handles[h])
         ]_vars

\* After a takeover a value was notified under the server id: the handle of the
\* local id that took it has the value, the handle of the local id that lost it
\* has nothing, and its record is still there without a server id.
C20_Witness ==
    /\ lastOp.op = "notify"
    /\ len = 2 /\ Cardinality(local_to_server) = 1
    /\ \E h1 \in HandleIds, h2 \in HandleIds :
          /\ handles[h1].alive /\ handles[h2].alive
          /\ local_id_for(lastOp.a) = handles[h1].local_id
          /\ HandleLen(h1) = 1
          /\ handles[h2].local_id # handles[h1].local_id
          /\ ServerOf(local_to_server, handles[h2].local_id) = None
          /\ h2 < h1
          /\ HandleLen(h2) = 0 /\ handles[h2].got = <<>>

\* the payloads among the results seen
RECURSIVE ValsOf(_)
ValsOf(seen) ==
    IF seen = <<>> THEN <<>>
    ELSE IF Head(seen).k = "val" THEN <<Head(seen).v>> \o ValsOf(Tail(seen))
    ELSE ValsOf(Tail(seen))

\* C13 (strict consumption): a strict call (recv, blocking_recv, try_recv of a
\* typed handle) reads payloads from the handle's cursor on; while it runs,
\* every payload it has read failed to decode and was discarded; it returns
\* only with the decoded value of the first payload that decodes, or with the
\* channel condition its last inner read met (Closed, Lagged, and Empty for
\* try_recv only), also when payloads were discarded before it in the same
\* call; the payloads it consumed are the channel's values from its starting
\* cursor on, as long as it met no Lagged.
C13_Strict ==
    /\ [][\A h \in HandleIds :
             (Subscription_recv(h) \/ Subscription_try_recv(h)) =>
                LET c == handles'[h].call
                    n == Len(c.seen)
                    last == c.seen[n]
                    sent == chans[handles[h].rx]
                IN  /\ n >= 1
                    /\ \A i \in 1..(n - 1) :
                          c.seen[i].k = "val" /\ ~from_str(c.seen[i].v).ok
                    /\ c.busy <=> (last.k = "val" /\ ~from_str(last.v).ok)
                    /\ (~c.busy /\ last.k = "val") =>
                          c.ret = Ok(from_str(last.v).v)
                    /\ (~c.busy /\ last.k # "val") =>
                          /\ c.ret = last
                          /\ last.k \in (IF c.fn = "try_recv"
                                         THEN {"closed", "lagged", "empty"}
                                         ELSE {"closed", "lagged"})
                    /\ last.k # "lagged" =>
                          /\ handles'[h].next = c.from + Len(ValsOf(c.seen))
                          /\ ValsOf(c.seen) =
                                SubSeq(sent, c.from + 1, c.from + Len(ValsOf(c.seen)))
         ]_vars
    /\ [](\A h \in HandleIds :
             (handles[h].alive /\ handles[h].call.busy) =>
                /\ handles[h].call.fn \in {"recv", "try_recv"}
                /\ \A i \in 1..Len(handles[h].call.seen) :
                      /\ handles[h].call.seen[i].k = "val"
                      /\ ~from_str(handles[h].call.seen[i].v).ok)

\* A strict recv discarded a payload of another shape, was then overtaken by
\* the publisher and returned Lagged as its error.
C13_Witness ==
    \E h \in HandleIds :
        /\ handles[h].alive
        /\ handles[h].call.fn = "recv" /\ ~handles[h].call.busy
        /\ handles[h].call.seen = <<Val(2), Lagged(1)>>
        /\ handles[h].call.ret = Lagged(1)

\* C14 (tagged consumption): a recv_any / blocking_recv_any / try_recv_any
\* that finds a payload readable at the cursor consumes exactly that one and
\* returns Item with its decoded value when it decodes and Other with the raw
\* payload itself when it does not; otherwise it returns the channel condition
\* of the inner read as its error, and never runs on to a further payload.
C14_Tagged ==
    [][\A h \in HandleIds :
          (recv_any(h) \/ try_recv_any(h)) =>
             LET hd == handles[h]
                 sent == chans[hd.rx]
                 c == handles'[h].call
             IN  /\ ~c.busy
                 /\ IF 0 < HandleLen(h) /\ HandleLen(h) <= Cap
                    THEN /\ handles'[h].next = hd.next + 1
                         /\ Len(sent) - handles'[h].next = HandleLen(h) - 1
                         /\ c.ret = IF from_str(sent[hd.next + 1]).ok
                                    THEN Item(from_str(sent[hd.next + 1]).v)
                                    ELSE Other(sent[hd.next + 1])
                    ELSE /\ c.ret = RecvRef(hd)[1]
                         /\ c.ret.k \in {"closed", "lagged", "empty"}
                         /\ c.ret.k # "lagged" => handles'[h].next = hd.next
      ]_vars

\* A try_recv_any has returned a payload of another shape as Other, with the
\* payload published after it still unread.
C14_Witness ==
    \E h \in HandleIds :
        /\ handles[h].alive
        /\ handles[h].call.fn = "try_recv_any"
        /\ handles[h].call.ret = Other(2)
        /\ handles[h].got = <<Val(2)>>
        /\ HandleLen(h) = 1

\* C15 (explicit-result consumption): a recv_result / blocking_recv_result /
\* try_recv_result that finds a payload readable at the cursor consumes
\* exactly that one and returns its decode outcome, the decoded value or the
\* decode error, leaving the cursor on the following payload for the following
\* call; otherwise it returns the channel condition of the inner read.
C15_ExplicitResult ==
    [][\A h \in HandleIds :
          (recv_result(h) \/ try_recv_result(h)) =>
             LET hd == handles[h]
                 sent == chans[hd.rx]
                 c == handles'[h].call
             IN  /\ ~c.busy
                 /\ IF 0 < HandleLen(h) /\ HandleLen(h) <= Cap
                    THEN /\ handles'[h].next = hd.next + 1
                         /\ UnreadIn(chans', handles'[h]) = Tail(UnreadIn(chans, hd))
                         /\ c.ret = IF from_str(sent[hd.next + 1]).ok
                                    THEN Ok(from_str(sent[hd.next + 1]).v)
                                    ELSE DecodeError
                    ELSE /\ c.ret = RecvRef(hd)[1]
                         /\ c.ret.k \in {"closed", "lagged", "empty"}
                         /\ c.ret.k # "lagged" => handles'[h].next = hd.next
      ]_vars

\* A recv_result has returned the decode error of a payload of another shape;
\* the payload published after it, which decodes, is the next to be read.
C15_Witness ==
    \E h \in HandleIds :
        /\ handles[h].alive
        /\ handles[h].call.fn = "recv_result"
        /\ handles[h].call.ret = DecodeError
        /\ handles[h].got = <<Val(2)>>
        /\ UnreadIn(chans, handles[h]) = <<1>>

\* C17 (calc_excess_blob_gas): the excess of a block is
\* max(0, parent excess + parent used - TARGET_DATA_GAS_PER_BLOCK): from a zero
\* excess it stays 0 when the used gas is at or below the target, it grows by
\* exactly the overshoot above the target, and it shrinks by the undershoot
\* but never below 0.
C17_ExcessBlobGas ==
    /\ [][(\E used \in UsedSamples : NextBlock(used)) =>
             LET e == excess_blob_gas
                 u == blob_gas_used
                 T == TARGET_DATA_GAS_PER_BLOCK
             IN  /\ excess_blob_gas' = IF e + u - T > 0 THEN e + u - T ELSE 0
                 /\ (e = 0 /\ u <= T) => excess_blob_gas' = 0
                 /\ u >= T => excess_blob_gas' = e + (u - T)
                 /\ u < T => excess_blob_gas' = IF e > T - u THEN e - (T - u) ELSE 0
                 /\ excess_blob_gas' >= 0
         ]_vars
    /\ [](excess_blob_gas >= 0)

\* The first header had an excess of 1 and used one blob more than the target:
\* the next header's excess is one blob's gas more.
C17_Witness ==
    /\ height = 1
    /\ excess_blob_gas = DATA_GAS_PER_BLOB + 1

FakeExpTests ==
    pc = "returned" =>
       /\ \A v \in FakeExpVectors :
             <<factor, numerator, denominator>> = <<v[1], v[2], v[3]>> => returned = v[4]
       /\ \A v \in BlobFeeVectors :
             <<factor, numerator, denominator>> = calc_blob_gasprice(v[1]) =>
                returned = v[2]

\* a call panics with a zero denominator, before anything is computed; with a
\* denominator above 0 it panics only with overflow checks, after its sum or
\* its product exceeded u128; it returns only once the term is 0, and then the
\* factor for a numerator of 0 and 0 for a factor of 0
FakeExpOutcomes ==
    /\ (denominator = <<>> /\ pc # "call") => (pc = "panicked" /\ iter = 0)
    /\ (denominator # <<>> /\ pc = "panicked") =>
          /\ overflow_checks
          /\ \/ ~Fits128(Add(output, numerator_accum))
             \/ ~Fits128(Mul(numerator_accum, numerator))
    /\ pc = "returned" =>
          /\ numerator_accum = <<>>
          /\ numerator = <<>> => returned = factor
          /\ factor = <<>> => returned = <<>>

\* C22 (fake_exponential): a call with denominator 0 panics; a call with a
\* denominator above 0 does not panic: its loop ends with the term at 0 and the
\* call returns, the factor when the numerator is 0 and 0 when the factor is 0.
C22_FakeExponential ==
    /\ (denominator = <<>> /\ pc # "call") => pc = "panicked"
    /\ denominator # <<>> => pc # "panicked"
    /\ pc = "returned" =>
          /\ numerator_accum = <<>>
          /\ numerator = <<>> => returned = factor
          /\ factor = <<>> => returned = <<>>

====
